---- MODULE Spec2Model ----
(***************************************************************************)
(* Availability and slot-conflict engine of the service booking platform.  *)
(*                                                                         *)
(* Time is counted in whole minutes.  A date is a day number (day 0 is a   *)
(* Monday), a time of day is a minute in 0 .. 1439 and a datetime is       *)
(* day * 1440 + minute, which is what datetime.combine builds.             *)
(* The database tables are sequences in primary-key order: the id of a row *)
(* is its index, rows are never deleted.                                   *)
(***************************************************************************)
EXTENDS Integers, Sequences, FiniteSets, TLC

VARIABLES
    services,        \* table services
    availabilities,  \* table provider_availabilities
    timeoffs,        \* table provider_timeoffs
    bookings,        \* table bookings
    inflight,        \* create_booking requests validated but not yet committed
    reviews,         \* table reviews; a deleted row keeps its id and is marked
    avg_rating,      \* column users.avg_rating, by user id
    resp             \* response of the last request

vars == <<services, availabilities, timeoffs, bookings, inflight, reviews, avg_rating, resp>>

(***************************************************************************)
(* Bounds of the model.                                                    *)
(***************************************************************************)
MaxServices == 1
MaxRules == 2
MaxTimeOffs == 1
MaxBookings == 2
MaxDay == 1
MaxInflight == 2
MaxReviews == 2

(***************************************************************************)
(* Users.  Nothing under app/api writes User.role and no user is deleted,  *)
(* so the users table is a fixed function.  Id 9 matches no user.          *)
(***************************************************************************)
UserIds == {1, 2, 3, 4, 5}

UserRole(u) ==
    CASE u \in {1, 2} -> "provider"
      [] u \in {3, 5} -> "customer"
      [] OTHER -> "admin"

Categories == {1}

(***************************************************************************)
(* Values the requests are drawn from.                                     *)
(***************************************************************************)
NoTime == 0 - 1
BadDate == 0 - 1

Days == 0 .. MaxDay
Durations == {30, 60}
Intervals == {0, 30, 60}
BookingTimes == {510, 540, 570, 600}
AdminStatuses == {"pending", "archived"}

\* float(s) / total, kept as the fraction s / total in lowest terms: two
\* averages are the same float exactly when they are the same fraction
RECURSIVE Gcd(_, _)
Gcd(a, b) == IF b = 0 THEN a ELSE Gcd(b, a % b)

Float(s, total) == <<s \div Gcd(s, total), total \div Gcd(s, total)>>

Max(a, b) == IF a >= b THEN a ELSE b
Min(a, b) == IF a <= b THEN a ELSE b

(***************************************************************************)
(* datetime                                                                *)
(***************************************************************************)
combine(d, t) == d * 1440 + t

\* date.weekday() as it is: 0 = Monday .. 6 = Sunday
weekday_of_zero_based(d) == d % 7

\* date.weekday() + 1 : 1 = Monday .. 7 = Sunday
weekday_of(d) == (d % 7) + 1

\* datetime.isoformat(): the date, the hour and the minute of a datetime
isoformat(dt) == <<dt \div 1440, (dt % 1440) \div 60, dt % 60>>

\* what a client reads back from an ISO string: (date, time of day)
parse_iso(s) == [date |-> s[1], time |-> s[2] * 60 + s[3]]

\* time.min is 00:00.  time.max is 23:59:59.999999; every datetime of the
\* model is a whole minute, and for whole minutes x the comparison
\* x < combine(d, time.max) is x < combine(d, 1440).
time_min == 0
time_max == 24 * 60

(***************************************************************************)
(* Slot generation and conflict detection (app/api/routes/availability.py) *)
(***************************************************************************)
\* overlaps over closed intervals
overlaps_closed(start1, end1, start2, end2) == Max(start1, start2) <= Min(end1, end2)

overlaps(start1, end1, start2, end2) == Max(start1, start2) < Min(end1, end2)

\* the occupancy with every booking taken as one hour long
get_provider_bookings_on_date_one_hour(provider_id, dt) ==
    LET rows == SelectSeq(bookings,
                    LAMBDA r : r.provider_id = provider_id /\ r.booking_date = dt)
    IN  [i \in 1 .. Len(rows) |->
            LET r == rows[i]
                start_dt == combine(r.booking_date, r.booking_time)
            IN  <<start_dt, start_dt + 60>>]

\* the occupancy without the canceled and the rejected bookings
get_provider_bookings_on_date_live(provider_id, dt) ==
    LET rows == SelectSeq(bookings,
                    LAMBDA r : /\ r.provider_id = provider_id
                               /\ r.booking_date = dt
                               /\ r.status \notin {"canceled", "rejected"})
    IN  [i \in 1 .. Len(rows) |->
            LET r == rows[i]
                duration == IF r.service_id \in 1 .. Len(services)
                            THEN services[r.service_id].duration_minutes
                            ELSE 60
                start_dt == combine(r.booking_date, r.booking_time)
            IN  <<start_dt, start_dt + duration>>]

\* list of <<start_datetime, end_datetime>>
get_provider_bookings_on_date(provider_id, dt) ==
    LET rows == SelectSeq(bookings,
                    LAMBDA r : r.provider_id = provider_id /\ r.booking_date = dt)
    IN  [i \in 1 .. Len(rows) |->
            LET r == rows[i]
                duration == IF r.service_id \in 1 .. Len(services)
                            THEN services[r.service_id].duration_minutes
                            ELSE 60
                start_dt == combine(r.booking_date, r.booking_time)
            IN  <<start_dt, start_dt + duration>>]

\* a time off with one time set blocking from its start_time, or to its
\* end_time, only
is_blocked_by_timeoff_open_ended(provider_id, slot_start_dt, slot_end_dt) ==
    \E i \in 1 .. Len(timeoffs) :
        LET t == timeoffs[i] IN
        /\ t.provider_id = provider_id
        /\ \E cur \in t.start_date .. t.end_date :
            LET block_start == IF t.start_time # NoTime THEN combine(cur, t.start_time)
                                                        ELSE combine(cur, time_min)
                block_end == IF t.end_time # NoTime THEN combine(cur, t.end_time)
                                                    ELSE combine(cur, time_max)
            IN  overlaps(block_start, block_end, slot_start_dt, slot_end_dt)

\* is_blocked_by_timeoff looking at the first day of a time off only
is_blocked_by_timeoff_first_day(provider_id, slot_start_dt, slot_end_dt) ==
    \E i \in 1 .. Len(timeoffs) :
        LET t == timeoffs[i]
            cur == t.start_date
            timed == t.start_time # NoTime /\ t.end_time # NoTime
            block_start == IF timed THEN combine(cur, t.start_time)
                                    ELSE combine(cur, time_min)
            block_end == IF timed THEN combine(cur, t.end_time)
                                  ELSE combine(cur, time_max)
        IN  /\ t.provider_id = provider_id
            /\ overlaps(block_start, block_end, slot_start_dt, slot_end_dt)

is_blocked_by_timeoff(provider_id, slot_start_dt, slot_end_dt) ==
    \E i \in 1 .. Len(timeoffs) :
        LET t == timeoffs[i] IN
        /\ t.provider_id = provider_id
        /\ \E cur \in t.start_date .. t.end_date :
            LET timed == t.start_time # NoTime /\ t.end_time # NoTime
                block_start == IF timed THEN combine(cur, t.start_time)
                                        ELSE combine(cur, time_min)
                block_end == IF timed THEN combine(cur, t.end_time)
                                      ELSE combine(cur, time_max)
            IN  overlaps(block_start, block_end, slot_start_dt, slot_end_dt)

\* the query without its provider_id filter
avail_windows_of_every_provider(provider_id, weekday) ==
    SelectSeq(availabilities, LAMBDA w : w.weekday = weekday /\ w.is_active)

\* the query without its is_active filter
avail_windows_of_any(provider_id, weekday) ==
    SelectSeq(availabilities,
        LAMBDA w : w.provider_id = provider_id /\ w.weekday = weekday)

\* the rows of the query on ProviderAvailability, in id order
avail_windows_of(provider_id, weekday) ==
    SelectSeq(availabilities,
        LAMBDA w : /\ w.provider_id = provider_id
                   /\ w.weekday = weekday
                   /\ w.is_active)

\* a conflict only when the slot starts inside a booking
conflicts_with_start_only(existing, slot_start, slot_end) ==
    \E i \in 1 .. Len(existing) :
        existing[i][1] <= slot_start /\ slot_start < existing[i][2]

\* the scans "for b_start, b_end in existing: if overlaps(...)"
conflicts_with(existing, slot_start, slot_end) ==
    \E i \in 1 .. Len(existing) :
        overlaps(existing[i][1], existing[i][2], slot_start, slot_end)

\* the loop asking only that a slot starts before the end of the window
RECURSIVE window_slots_no_fit(_, _, _, _, _, _)
window_slots_no_fit(provider_id, existing, slot_start, window_end, duration, interval_minutes) ==
    IF slot_start < window_end
    THEN LET slot_end == slot_start + duration
             rest == window_slots_no_fit(provider_id, existing,
                         slot_start + interval_minutes, window_end,
                         duration, interval_minutes)
         IN  IF conflicts_with(existing, slot_start, slot_end) THEN rest
             ELSE IF is_blocked_by_timeoff(provider_id, slot_start, slot_end) THEN rest
             ELSE <<isoformat(slot_start)>> \o rest
    ELSE <<>>

\* the loop asking that a slot ends before the end of the window
RECURSIVE window_slots_strict_fit(_, _, _, _, _, _)
window_slots_strict_fit(provider_id, existing, slot_start, window_end, duration, interval_minutes) ==
    IF slot_start + duration < window_end
    THEN LET slot_end == slot_start + duration
             rest == window_slots_strict_fit(provider_id, existing,
                         slot_start + interval_minutes, window_end,
                         duration, interval_minutes)
         IN  IF conflicts_with(existing, slot_start, slot_end) THEN rest
             ELSE IF is_blocked_by_timeoff(provider_id, slot_start, slot_end) THEN rest
             ELSE <<isoformat(slot_start)>> \o rest
    ELSE <<>>

\* the loop leaving the window at the first conflicting candidate
RECURSIVE window_slots_break_on_conflict(_, _, _, _, _, _)
window_slots_break_on_conflict(provider_id, existing, slot_start, window_end, duration, interval_minutes) ==
    IF slot_start + duration <= window_end
    THEN LET slot_end == slot_start + duration
             rest == window_slots_break_on_conflict(provider_id, existing,
                         slot_start + interval_minutes, window_end,
                         duration, interval_minutes)
         IN  IF conflicts_with(existing, slot_start, slot_end) THEN <<>>
             ELSE IF is_blocked_by_timeoff(provider_id, slot_start, slot_end) THEN rest
             ELSE <<isoformat(slot_start)>> \o rest
    ELSE <<>>

\* the while loop over one window, from slot_start on
RECURSIVE window_slots(_, _, _, _, _, _)
window_slots(provider_id, existing, slot_start, window_end, duration, interval_minutes) ==
    IF slot_start + duration <= window_end
    THEN LET slot_end == slot_start + duration
             rest == window_slots(provider_id, existing,
                         slot_start + interval_minutes, window_end,
                         duration, interval_minutes)
         IN  IF conflicts_with(existing, slot_start, slot_end) THEN rest
             ELSE IF is_blocked_by_timeoff(provider_id, slot_start, slot_end) THEN rest
             ELSE <<isoformat(slot_start)>> \o rest
    ELSE <<>>

\* With a step of 0 the cursor never passes window_end: the loop of a window
\* it enters at all does not end and the request never returns.  With a
\* step below 0 the cursor walks back from window_start, every candidate
\* still fitting, until datetime runs out of range: no list is returned
\* either.
loop_never_ends(window_start, window_end, duration, interval_minutes) ==
    /\ interval_minutes <= 0
    /\ window_start + duration <= window_end

RECURSIVE all_window_slots(_, _, _, _, _, _)
all_window_slots(avail_windows, provider_id, existing, target_date, duration, interval_minutes) ==
    IF avail_windows = <<>> THEN <<>>
    ELSE LET w == Head(avail_windows)
             window_start == combine(target_date, w.start_time)
             window_end == combine(target_date, w.end_time)
         IN  window_slots(provider_id, existing, window_start, window_end,
                          duration, interval_minutes)
             \o all_window_slots(Tail(avail_windows), provider_id, existing,
                                 target_date, duration, interval_minutes)

\* what the model keeps of a request and its answer
Response(op, req, code, detail, slots) ==
    [op |-> op, req |-> req, code |-> code, detail |-> detail, slots |-> slots]

\* code 0: the request does not return
get_available_slots_for_date(provider_id, service_id, date_str, interval_minutes) ==
    IF date_str = BadDate
    THEN Response("slots", <<provider_id, service_id, date_str, interval_minutes>>, 400, "Invalid date format", <<>>)
    ELSE IF service_id \notin 1 .. Len(services)
    THEN Response("slots", <<provider_id, service_id, date_str, interval_minutes>>, 404, "Service not found", <<>>)
    ELSE
    LET target_date == date_str
        duration == services[service_id].duration_minutes
        weekday == weekday_of(target_date)
        avail_windows == avail_windows_of(provider_id, weekday)
        existing_bookings == get_provider_bookings_on_date(provider_id, target_date)
    IN  IF \E i \in 1 .. Len(avail_windows) :
               loop_never_ends(combine(target_date, avail_windows[i].start_time),
                               combine(target_date, avail_windows[i].end_time),
                               duration, interval_minutes)
        THEN Response("slots", <<provider_id, service_id, date_str, interval_minutes>>, 0, "no response", <<>>)
        ELSE Response("slots", <<provider_id, service_id, date_str, interval_minutes>>, 200, "ok",
                 all_window_slots(avail_windows, provider_id, existing_bookings,
                                  target_date, duration, interval_minutes))

(***************************************************************************)
(* create_booking (app/api/routes/bookings.py): the checks, in order       *)
(***************************************************************************)
\* a window that the request merely overlaps is taken as good
fits_a_window_overlapping(avail_windows, booking_date, requested_start, requested_end) ==
    \E i \in 1 .. Len(avail_windows) :
        overlaps(combine(booking_date, avail_windows[i].start_time),
                 combine(booking_date, avail_windows[i].end_time),
                 requested_start, requested_end)

\* the loop "for w in avail_windows" that sets ok_window
fits_a_window(avail_windows, booking_date, requested_start, requested_end) ==
    \E i \in 1 .. Len(avail_windows) :
        /\ requested_start >= combine(booking_date, avail_windows[i].start_time)
        /\ requested_end <= combine(booking_date, avail_windows[i].end_time)

BookingCreate(provider_id, service_id, booking_date, booking_time, address, amount) ==
    [provider_id |-> provider_id, service_id |-> service_id,
     booking_date |-> booking_date, booking_time |-> booking_time,
     address |-> address, amount |-> amount]

\* the checks with the time-off check ahead of the overlap check
create_booking_check_timeoff_first(current_user, booking) ==
    IF UserRole(current_user) # "customer"
    THEN Response("create_booking", <<current_user, booking>>, 403, "Only customers can create bookings", <<>>)
    ELSE IF booking.service_id \notin 1 .. Len(services)
    THEN Response("create_booking", <<current_user, booking>>, 404, "Service not found", <<>>)
    ELSE IF ~(booking.provider_id \in UserIds /\ UserRole(booking.provider_id) = "provider")
    THEN Response("create_booking", <<current_user, booking>>, 404, "Provider not found", <<>>)
    ELSE
    LET service == services[booking.service_id]
        weekday == weekday_of(booking.booking_date)
        requested_start == combine(booking.booking_date, booking.booking_time)
        requested_end == requested_start + service.duration_minutes
        avail_windows == avail_windows_of(booking.provider_id, weekday)
        ok_window == fits_a_window(avail_windows, booking.booking_date,
                                   requested_start, requested_end)
        existing == get_provider_bookings_on_date(booking.provider_id, booking.booking_date)
    IN  IF avail_windows = <<>>
        THEN Response("create_booking", <<current_user, booking>>, 400, "Provider has no availability on this day", <<>>)
        ELSE IF ~ok_window
        THEN Response("create_booking", <<current_user, booking>>, 400, "Requested time is outside provider availability", <<>>)
        ELSE IF is_blocked_by_timeoff(booking.provider_id, requested_start, requested_end)
        THEN Response("create_booking", <<current_user, booking>>, 400, "Requested time falls during provider time off", <<>>)
        ELSE IF conflicts_with(existing, requested_start, requested_end)
        THEN Response("create_booking", <<current_user, booking>>, 400, "Requested time overlaps an existing booking", <<>>)
        ELSE Response("create_booking", <<current_user, booking>>, 200, "ok", <<>>)

create_booking_check(current_user, booking) ==
    IF UserRole(current_user) # "customer"
    THEN Response("create_booking", <<current_user, booking>>, 403, "Only customers can create bookings", <<>>)
    ELSE IF booking.service_id \notin 1 .. Len(services)
    THEN Response("create_booking", <<current_user, booking>>, 404, "Service not found", <<>>)
    ELSE IF ~(booking.provider_id \in UserIds /\ UserRole(booking.provider_id) = "provider")
    THEN Response("create_booking", <<current_user, booking>>, 404, "Provider not found", <<>>)
    ELSE
    LET service == services[booking.service_id]
        weekday == weekday_of(booking.booking_date)
        requested_start == combine(booking.booking_date, booking.booking_time)
        requested_end == requested_start + service.duration_minutes
        avail_windows == avail_windows_of(booking.provider_id, weekday)
        ok_window == fits_a_window(avail_windows, booking.booking_date,
                                   requested_start, requested_end)
        existing == get_provider_bookings_on_date(booking.provider_id, booking.booking_date)
    IN  IF avail_windows = <<>>
        THEN Response("create_booking", <<current_user, booking>>, 400, "Provider has no availability on this day", <<>>)
        ELSE IF ~ok_window
        THEN Response("create_booking", <<current_user, booking>>, 400, "Requested time is outside provider availability", <<>>)
        ELSE IF conflicts_with(existing, requested_start, requested_end)
        THEN Response("create_booking", <<current_user, booking>>, 400, "Requested time overlaps an existing booking", <<>>)
        ELSE IF is_blocked_by_timeoff(booking.provider_id, requested_start, requested_end)
        THEN Response("create_booking", <<current_user, booking>>, 400, "Requested time falls during provider time off", <<>>)
        ELSE Response("create_booking", <<current_user, booking>>, 200, "ok", <<>>)

\* the booking stored as already accepted
new_booking_accepted(current_user, booking) ==
    [customer_id |-> current_user,
     provider_id |-> booking.provider_id,
     service_id |-> booking.service_id,
     booking_date |-> booking.booking_date,
     booking_time |-> booking.booking_time,
     address |-> booking.address,
     amount |-> booking.amount,
     status |-> "accepted"]

new_booking(current_user, booking) ==
    [customer_id |-> current_user,
     provider_id |-> booking.provider_id,
     service_id |-> booking.service_id,
     booking_date |-> booking.booking_date,
     booking_time |-> booking.booking_time,
     address |-> booking.address,
     amount |-> booking.amount,
     status |-> "pending"]

(***************************************************************************)
(* Initial state: an empty database, no request answered yet.              *)
(***************************************************************************)
Init ==
    /\ services = <<>>
    /\ availabilities = <<>>
    /\ timeoffs = <<>>
    /\ bookings = <<>>
    /\ inflight = <<>>
    /\ reviews = <<>>
    /\ avg_rating = [u \in UserIds |-> Float(0, 1)]
    /\ resp = Response("none", <<>>, 0, "", <<>>)

(***************************************************************************)
(* Providers' endpoints                                                    *)
(***************************************************************************)
\* the handler rejecting only start_time > end_time
add_weekly_availability_equal_allowed(current_user, weekday, start_time, end_time, is_active) ==
    /\ IF UserRole(current_user) # "provider"
       THEN /\ resp' = Response("add_weekly_availability", <<current_user, weekday, start_time, end_time, is_active>>, 403,
                           "Only providers can add availability", <<>>)
            /\ UNCHANGED availabilities
       ELSE IF weekday \notin 1 .. 7
       THEN /\ resp' = Response("add_weekly_availability", <<current_user, weekday, start_time, end_time, is_active>>, 422, "weekday", <<>>)
            /\ UNCHANGED availabilities
       ELSE IF start_time > end_time
       THEN /\ resp' = Response("add_weekly_availability", <<current_user, weekday, start_time, end_time, is_active>>, 400,
                           "start_time must be before end_time", <<>>)
            /\ UNCHANGED availabilities
       ELSE /\ Len(availabilities) < MaxRules
            /\ availabilities' = Append(availabilities,
                   [provider_id |-> current_user, weekday |-> weekday,
                    start_time |-> start_time, end_time |-> end_time,
                    is_active |-> is_active])
            /\ resp' = Response("add_weekly_availability", <<current_user, weekday, start_time, end_time, is_active>>, 200, "ok", <<>>)
    /\ UNCHANGED <<services, timeoffs, bookings, inflight, reviews, avg_rating>>

\* POST /availability/provider/weekly
add_weekly_availability(current_user, weekday, start_time, end_time, is_active) ==
    /\ IF UserRole(current_user) # "provider"
       THEN /\ resp' = Response("add_weekly_availability", <<current_user, weekday, start_time, end_time, is_active>>, 403,
                           "Only providers can add availability", <<>>)
            /\ UNCHANGED availabilities
       ELSE IF weekday \notin 1 .. 7
       THEN /\ resp' = Response("add_weekly_availability", <<current_user, weekday, start_time, end_time, is_active>>, 422, "weekday", <<>>)
            /\ UNCHANGED availabilities
       ELSE IF start_time >= end_time
       THEN /\ resp' = Response("add_weekly_availability", <<current_user, weekday, start_time, end_time, is_active>>, 400,
                           "start_time must be before end_time", <<>>)
            /\ UNCHANGED availabilities
       ELSE /\ Len(availabilities) < MaxRules
            /\ availabilities' = Append(availabilities,
                   [provider_id |-> current_user, weekday |-> weekday,
                    start_time |-> start_time, end_time |-> end_time,
                    is_active |-> is_active])
            /\ resp' = Response("add_weekly_availability", <<current_user, weekday, start_time, end_time, is_active>>, 200, "ok", <<>>)
    /\ UNCHANGED <<services, timeoffs, bookings, inflight, reviews, avg_rating>>

\* POST /availability/provider/timeoff
add_timeoff(current_user, start_date, end_date, start_time, end_time) ==
    /\ IF UserRole(current_user) # "provider"
       THEN /\ resp' = Response("add_timeoff", <<current_user, start_date, end_date, start_time, end_time>>, 403, "Only providers can add time off", <<>>)
            /\ UNCHANGED timeoffs
       ELSE IF start_date > end_date
       THEN /\ resp' = Response("add_timeoff", <<current_user, start_date, end_date, start_time, end_time>>, 400, "start_date must be <= end_date", <<>>)
            /\ UNCHANGED timeoffs
       ELSE /\ Len(timeoffs) < MaxTimeOffs
            /\ timeoffs' = Append(timeoffs,
                   [provider_id |-> current_user,
                    start_date |-> start_date, end_date |-> end_date,
                    start_time |-> start_time, end_time |-> end_time])
            /\ resp' = Response("add_timeoff", <<current_user, start_date, end_date, start_time, end_time>>, 200, "ok", <<>>)
    /\ UNCHANGED <<services, availabilities, bookings, inflight, reviews, avg_rating>>

\* POST /services/provider/services
create_service(current_user, category_id, duration_minutes) ==
    /\ IF UserRole(current_user) # "provider"
       THEN /\ resp' = Response("create_service", <<current_user, category_id, duration_minutes>>, 403, "Only providers can create services", <<>>)
            /\ UNCHANGED services
       ELSE IF category_id \notin Categories
       THEN /\ resp' = Response("create_service", <<current_user, category_id, duration_minutes>>, 404, "Category not found", <<>>)
            /\ UNCHANGED services
       ELSE /\ Len(services) < MaxServices
            /\ services' = Append(services,
                   [provider_id |-> current_user, duration_minutes |-> duration_minutes])
            /\ resp' = Response("create_service", <<current_user, category_id, duration_minutes>>, 200, "ok", <<>>)
    /\ UNCHANGED <<availabilities, timeoffs, bookings, inflight, reviews, avg_rating>>

\* PUT /services/provider/services/{service_id}, with duration_minutes set
update_service(current_user, service_id, duration_minutes) ==
    /\ IF service_id \notin 1 .. Len(services)
       THEN /\ resp' = Response("update_service", <<current_user, service_id, duration_minutes>>, 404, "Service not found", <<>>)
            /\ UNCHANGED services
       ELSE IF services[service_id].provider_id # current_user
       THEN /\ resp' = Response("update_service", <<current_user, service_id, duration_minutes>>, 403,
                           "You cannot edit another provider's service", <<>>)
            /\ UNCHANGED services
       ELSE /\ services' = [services EXCEPT ![service_id].duration_minutes = duration_minutes]
            /\ resp' = Response("update_service", <<current_user, service_id, duration_minutes>>, 200, "ok", <<>>)
    /\ UNCHANGED <<availabilities, timeoffs, bookings, inflight, reviews, avg_rating>>

(***************************************************************************)
(* Slot listing and booking                                                *)
(***************************************************************************)
\* a listing that keeps its cursor between calls: asked again with the same
\* arguments, it goes on after the first slot it returned before
GetSlots_resumed(provider_id, service_id, date_str, interval_minutes) ==
    /\ resp' = IF /\ resp.op = "slots"
                  /\ resp.req = <<provider_id, service_id, date_str, interval_minutes>>
                  /\ resp.slots # <<>>
               THEN [resp EXCEPT !.slots = Tail(resp.slots)]
               ELSE get_available_slots_for_date(provider_id, service_id, date_str, interval_minutes)
    /\ UNCHANGED <<services, availabilities, timeoffs, bookings, inflight, reviews, avg_rating>>

\* GET /availability/provider/{provider_id}/slots
GetSlots(provider_id, service_id, date_str, interval_minutes) ==
    /\ resp' = get_available_slots_for_date(provider_id, service_id, date_str, interval_minutes)
    /\ UNCHANGED <<services, availabilities, timeoffs, bookings, inflight, reviews, avg_rating>>

\* POST /bookings/customer, run without interruption
create_booking(current_user, booking) ==
    LET r == create_booking_check(current_user, booking) IN
    /\ resp' = r
    /\ IF r.code = 200
       THEN /\ Len(bookings) < MaxBookings
            /\ bookings' = Append(bookings, new_booking(current_user, booking))
       ELSE UNCHANGED bookings
    /\ UNCHANGED <<services, availabilities, timeoffs, inflight, reviews, avg_rating>>

\* POST /bookings/customer of a request that runs beside others: the checks
\* (every query up to the time-off check) read the database as it is now
validate_booking(current_user, booking) ==
    LET r == create_booking_check(current_user, booking) IN
    /\ IF r.code = 200
       THEN /\ Len(inflight) < MaxInflight
            /\ inflight' = Append(inflight, <<current_user, booking>>)
            /\ UNCHANGED resp
       ELSE /\ resp' = r
            /\ UNCHANGED inflight
    /\ UNCHANGED <<services, availabilities, timeoffs, bookings, reviews, avg_rating>>

\* ... and db.add / db.commit of a request whose checks have passed
commit_booking(i) ==
    /\ i \in 1 .. Len(inflight)
    /\ Len(bookings) < MaxBookings
    /\ bookings' = Append(bookings, new_booking(inflight[i][1], inflight[i][2]))
    /\ inflight' = SubSeq(inflight, 1, i - 1) \o SubSeq(inflight, i + 1, Len(inflight))
    /\ resp' = Response("create_booking", inflight[i], 200, "ok", <<>>)
    /\ UNCHANGED <<services, availabilities, timeoffs, reviews, avg_rating>>

(***************************************************************************)
(* Booking status endpoints                                                *)
(***************************************************************************)
\* POST /bookings/{booking_id}/cancel
cancel_booking(current_user, booking_id) ==
    /\ IF UserRole(current_user) # "customer"
       THEN /\ resp' = Response("cancel_booking", <<current_user, booking_id>>, 403,
                           "Customers only", <<>>)
            /\ UNCHANGED bookings
       ELSE IF booking_id \notin 1 .. Len(bookings)
       THEN /\ resp' = Response("cancel_booking", <<current_user, booking_id>>, 404,
                           "Booking not found", <<>>)
            /\ UNCHANGED bookings
       ELSE IF bookings[booking_id].customer_id # current_user
       THEN /\ resp' = Response("cancel_booking", <<current_user, booking_id>>, 403,
                           "Not your booking", <<>>)
            /\ UNCHANGED bookings
       ELSE IF bookings[booking_id].status # "pending"
       THEN /\ resp' = Response("cancel_booking", <<current_user, booking_id>>, 400,
                           "Cannot cancel booking because it is already handled", <<>>)
            /\ UNCHANGED bookings
       ELSE /\ bookings' = [bookings EXCEPT ![booking_id].status = "canceled"]
            /\ resp' = Response("cancel_booking", <<current_user, booking_id>>, 200, "ok", <<>>)
    /\ UNCHANGED <<services, availabilities, timeoffs, inflight, reviews, avg_rating>>

\* POST /bookings/{booking_id}/accept
accept_booking(current_user, booking_id) ==
    /\ IF UserRole(current_user) # "provider"
       THEN /\ resp' = Response("accept_booking", <<current_user, booking_id>>, 403,
                           "Providers only", <<>>)
            /\ UNCHANGED bookings
       ELSE IF booking_id \notin 1 .. Len(bookings)
       THEN /\ resp' = Response("accept_booking", <<current_user, booking_id>>, 404,
                           "Booking not found", <<>>)
            /\ UNCHANGED bookings
       ELSE IF bookings[booking_id].provider_id # current_user
       THEN /\ resp' = Response("accept_booking", <<current_user, booking_id>>, 403,
                           "Not your booking", <<>>)
            /\ UNCHANGED bookings
       ELSE IF bookings[booking_id].status # "pending"
       THEN /\ resp' = Response("accept_booking", <<current_user, booking_id>>, 400,
                           "Booking already handled", <<>>)
            /\ UNCHANGED bookings
       ELSE /\ bookings' = [bookings EXCEPT ![booking_id].status = "accepted"]
            /\ resp' = Response("accept_booking", <<current_user, booking_id>>, 200, "ok", <<>>)
    /\ UNCHANGED <<services, availabilities, timeoffs, inflight, reviews, avg_rating>>

\* POST /bookings/{booking_id}/reject
reject_booking(current_user, booking_id) ==
    /\ IF UserRole(current_user) # "provider"
       THEN /\ resp' = Response("reject_booking", <<current_user, booking_id>>, 403,
                           "Providers only", <<>>)
            /\ UNCHANGED bookings
       ELSE IF booking_id \notin 1 .. Len(bookings)
       THEN /\ resp' = Response("reject_booking", <<current_user, booking_id>>, 404,
                           "Booking not found", <<>>)
            /\ UNCHANGED bookings
       ELSE IF bookings[booking_id].provider_id # current_user
       THEN /\ resp' = Response("reject_booking", <<current_user, booking_id>>, 403,
                           "Not your booking", <<>>)
            /\ UNCHANGED bookings
       ELSE IF bookings[booking_id].status # "pending"
       THEN /\ resp' = Response("reject_booking", <<current_user, booking_id>>, 400,
                           "Booking already handled", <<>>)
            /\ UNCHANGED bookings
       ELSE /\ bookings' = [bookings EXCEPT ![booking_id].status = "rejected"]
            /\ resp' = Response("reject_booking", <<current_user, booking_id>>, 200, "ok", <<>>)
    /\ UNCHANGED <<services, availabilities, timeoffs, inflight, reviews, avg_rating>>

\* complete_booking with the status test of accept_booking
complete_booking_from_pending(current_user, booking_id) ==
    /\ IF UserRole(current_user) # "provider"
       THEN /\ resp' = Response("complete_booking", <<current_user, booking_id>>, 403,
                           "Providers only", <<>>)
            /\ UNCHANGED bookings
       ELSE IF booking_id \notin 1 .. Len(bookings)
       THEN /\ resp' = Response("complete_booking", <<current_user, booking_id>>, 404,
                           "Booking not found", <<>>)
            /\ UNCHANGED bookings
       ELSE IF bookings[booking_id].provider_id # current_user
       THEN /\ resp' = Response("complete_booking", <<current_user, booking_id>>, 403,
                           "Not your booking", <<>>)
            /\ UNCHANGED bookings
       ELSE IF bookings[booking_id].status # "pending"
       THEN /\ resp' = Response("complete_booking", <<current_user, booking_id>>, 400,
                           "Only accepted bookings can be completed", <<>>)
            /\ UNCHANGED bookings
       ELSE /\ bookings' = [bookings EXCEPT ![booking_id].status = "completed"]
            /\ resp' = Response("complete_booking", <<current_user, booking_id>>, 200, "ok", <<>>)
    /\ UNCHANGED <<services, availabilities, timeoffs, inflight, reviews, avg_rating>>

\* POST /bookings/{booking_id}/complete
complete_booking(current_user, booking_id) ==
    /\ IF UserRole(current_user) # "provider"
       THEN /\ resp' = Response("complete_booking", <<current_user, booking_id>>, 403,
                           "Providers only", <<>>)
            /\ UNCHANGED bookings
       ELSE IF booking_id \notin 1 .. Len(bookings)
       THEN /\ resp' = Response("complete_booking", <<current_user, booking_id>>, 404,
                           "Booking not found", <<>>)
            /\ UNCHANGED bookings
       ELSE IF bookings[booking_id].provider_id # current_user
       THEN /\ resp' = Response("complete_booking", <<current_user, booking_id>>, 403,
                           "Not your booking", <<>>)
            /\ UNCHANGED bookings
       ELSE IF bookings[booking_id].status # "accepted"
       THEN /\ resp' = Response("complete_booking", <<current_user, booking_id>>, 400,
                           "Only accepted bookings can be completed", <<>>)
            /\ UNCHANGED bookings
       ELSE /\ bookings' = [bookings EXCEPT ![booking_id].status = "completed"]
            /\ resp' = Response("complete_booking", <<current_user, booking_id>>, 200, "ok", <<>>)
    /\ UNCHANGED <<services, availabilities, timeoffs, inflight, reviews, avg_rating>>

\* PUT /admin/bookings/{booking_id}/status
admin_update_booking_status(current_user, booking_id, status) ==
    /\ IF UserRole(current_user) # "admin"
       THEN /\ resp' = Response("admin_update_booking_status", <<current_user, booking_id, status>>, 403, "Admin only", <<>>)
            /\ UNCHANGED bookings
       ELSE IF booking_id \notin 1 .. Len(bookings)
       THEN /\ resp' = Response("admin_update_booking_status", <<current_user, booking_id, status>>, 404, "Booking not found", <<>>)
            /\ UNCHANGED bookings
       ELSE /\ bookings' = [bookings EXCEPT ![booking_id].status = status]
            /\ resp' = Response("admin_update_booking_status", <<current_user, booking_id, status>>, 200, "ok", <<>>)
    /\ UNCHANGED <<services, availabilities, timeoffs, inflight, reviews, avg_rating>>

(***************************************************************************)
(* Reviews (app/api/routes/review.py, app/api/routes/admin.py)             *)
(***************************************************************************)
\* the rows of the reviews table
live_reviews(revs) == SelectSeq(revs, LAMBDA r : ~r.deleted)

RECURSIVE sum_of_ratings(_)
sum_of_ratings(rows) ==
    IF rows = <<>> THEN 0 ELSE Head(rows).rating + sum_of_ratings(Tail(rows))

\* _recalculate_provider_rating: the new avg_rating of the provider, from
\* the reviews table revs
recalculate_provider_rating(revs, provider_id) ==
    LET rows == SelectSeq(live_reviews(revs), LAMBDA r : r.provider_id = provider_id)
        total == Len(rows)
    IN  IF total = 0 THEN Float(0, 1) ELSE Float(sum_of_ratings(rows), total)

\* POST /reviews/
create_review(current_user, booking_id, rating) ==
    /\ IF rating \notin 1 .. 5
       THEN /\ resp' = Response("create_review", <<current_user, booking_id, rating>>, 422, "rating", <<>>)
            /\ UNCHANGED <<reviews, avg_rating>>
       ELSE IF UserRole(current_user) # "customer"
       THEN /\ resp' = Response("create_review", <<current_user, booking_id, rating>>, 403,
                           "Only customers can create reviews", <<>>)
            /\ UNCHANGED <<reviews, avg_rating>>
       ELSE IF booking_id \notin 1 .. Len(bookings)
       THEN /\ resp' = Response("create_review", <<current_user, booking_id, rating>>, 404,
                           "Booking not found", <<>>)
            /\ UNCHANGED <<reviews, avg_rating>>
       ELSE IF bookings[booking_id].customer_id # current_user
       THEN /\ resp' = Response("create_review", <<current_user, booking_id, rating>>, 403,
                           "Booking does not belong to you", <<>>)
            /\ UNCHANGED <<reviews, avg_rating>>
       ELSE IF bookings[booking_id].status # "completed"
       THEN /\ resp' = Response("create_review", <<current_user, booking_id, rating>>, 400,
                           "Can only review completed bookings", <<>>)
            /\ UNCHANGED <<reviews, avg_rating>>
       ELSE IF \E i \in 1 .. Len(reviews) :
                  ~reviews[i].deleted /\ reviews[i].booking_id = booking_id
       THEN /\ resp' = Response("create_review", <<current_user, booking_id, rating>>, 400,
                           "Review for this booking already exists", <<>>)
            /\ UNCHANGED <<reviews, avg_rating>>
       ELSE IF ~(/\ bookings[booking_id].provider_id \in UserIds
                 /\ UserRole(bookings[booking_id].provider_id) = "provider")
       THEN /\ resp' = Response("create_review", <<current_user, booking_id, rating>>, 404,
                           "Provider not found", <<>>)
            /\ UNCHANGED <<reviews, avg_rating>>
       ELSE /\ Len(reviews) < MaxReviews
            /\ reviews' = Append(reviews,
                   [booking_id |-> booking_id, customer_id |-> current_user,
                    provider_id |-> bookings[booking_id].provider_id,
                    rating |-> rating, deleted |-> FALSE])
            /\ avg_rating' = [avg_rating EXCEPT ![bookings[booking_id].provider_id] =
                   recalculate_provider_rating(reviews', bookings[booking_id].provider_id)]
            /\ resp' = Response("create_review", <<current_user, booking_id, rating>>, 201, "ok", <<>>)
    /\ UNCHANGED <<services, availabilities, timeoffs, bookings, inflight>>

\* DELETE /reviews/{review_id} (routes/review.py); require_admin answers 403
\* to a caller who is not an admin
review_admin_delete_review(admin, review_id) ==
    /\ IF UserRole(admin) # "admin"
       THEN /\ resp' = Response("review_admin_delete_review", <<admin, review_id>>, 403, "Admin only", <<>>)
            /\ UNCHANGED <<reviews, avg_rating>>
       ELSE IF ~(review_id \in 1 .. Len(reviews) /\ ~reviews[review_id].deleted)
       THEN /\ resp' = Response("review_admin_delete_review", <<admin, review_id>>, 404, "Review not found", <<>>)
            /\ UNCHANGED <<reviews, avg_rating>>
       ELSE /\ reviews' = [reviews EXCEPT ![review_id].deleted = TRUE]
            /\ avg_rating' = [avg_rating EXCEPT ![reviews[review_id].provider_id] =
                   recalculate_provider_rating(reviews', reviews[review_id].provider_id)]
            /\ resp' = Response("review_admin_delete_review", <<admin, review_id>>, 204, "ok", <<>>)
    /\ UNCHANGED <<services, availabilities, timeoffs, bookings, inflight>>

\* DELETE /admin/reviews/{review_id} (routes/admin.py): db.delete and
\* db.commit, nothing else
admin_admin_delete_review(current_user, review_id) ==
    /\ IF UserRole(current_user) # "admin"
       THEN /\ resp' = Response("admin_admin_delete_review", <<current_user, review_id>>, 403, "Admin only", <<>>)
            /\ UNCHANGED reviews
       ELSE IF ~(review_id \in 1 .. Len(reviews) /\ ~reviews[review_id].deleted)
       THEN /\ resp' = Response("admin_admin_delete_review", <<current_user, review_id>>, 404, "Review not found", <<>>)
            /\ UNCHANGED reviews
       ELSE /\ reviews' = [reviews EXCEPT ![review_id].deleted = TRUE]
            /\ resp' = Response("admin_admin_delete_review", <<current_user, review_id>>, 200, "ok", <<>>)
    /\ UNCHANGED <<services, availabilities, timeoffs, bookings, inflight, avg_rating>>

(***************************************************************************)
(* Requests                                                                *)
(***************************************************************************)
\* weekly rules asked for: <<caller, weekday, start_time, end_time, is_active>>
WeeklyRequests ==
    { <<1, 1, 540, 1020, TRUE>>, <<1, 1, 540, 600, TRUE>>, <<1, 1, 600, 1020, TRUE>>,
      <<1, 1, 540, 1020, FALSE>>, <<1, 2, 540, 1020, TRUE>>,
      <<1, 1, 600, 540, TRUE>>, <<1, 1, 540, 540, TRUE>>, <<3, 1, 540, 1020, TRUE>> }

\* time off asked for: <<caller, start_date, end_date, start_time, end_time>>
TimeoffRequests ==
    { <<1, 0, 0, NoTime, NoTime>>, <<1, 0, 1, NoTime, NoTime>>, <<1, 0, 1, 600, 660>>,
      <<1, 0, 0, NoTime, 660>>,
      <<1, 1, 0, NoTime, NoTime>>, <<3, 0, 0, NoTime, NoTime>> }

\* services asked for: <<caller, category_id, duration_minutes>>
ServiceRequests ==
    {<<1, 1, dur>> : dur \in Durations} \cup {<<3, 1, 60>>, <<1, 2, 60>>}

\* service updates asked for: <<caller, service_id, duration_minutes>>
ServiceUpdates ==
    {<<1, 1, dur>> : dur \in Durations} \cup {<<2, 1, 60>>, <<1, MaxServices + 1, 60>>}

\* bookings asked for; provider 9 and service MaxServices + 1 may not exist
BookingRequests ==
    {BookingCreate(1, 1, 0, t, "addr", 100) : t \in BookingTimes}
    \cup {BookingCreate(1, 1, d, 540, "home", 250) : d \in Days \ {0}}
    \cup {BookingCreate(9, 1, 0, 540, "addr", 100),
          BookingCreate(1, MaxServices + 1, 0, 540, "addr", 100),
          BookingCreate(9, MaxServices + 1, 0, 540, "addr", 100)}

\* slot listings asked for: <<provider_id, service_id, date_str, interval_minutes>>
SlotRequests ==
    {<<1, 1, 0, i>> : i \in Intervals}
    \cup {<<1, 1, d, 30>> : d \in Days}
    \cup {<<9, 1, 0, 30>>, <<1, MaxServices + 1, 0, 30>>, <<1, 1, BadDate, 30>>}

AddWeeklyAvailability ==
    \E r \in WeeklyRequests : add_weekly_availability(r[1], r[2], r[3], r[4], r[5])

AddTimeoff ==
    \E r \in TimeoffRequests : add_timeoff(r[1], r[2], r[3], r[4], r[5])

CreateService ==
    \E r \in ServiceRequests : create_service(r[1], r[2], r[3])

UpdateService ==
    \E r \in ServiceUpdates : update_service(r[1], r[2], r[3])

GetAvailableSlots ==
    \E r \in SlotRequests : GetSlots(r[1], r[2], r[3], r[4])

CreateBooking ==
    \/ \E b \in BookingRequests : create_booking(3, b)
    \/ create_booking(1, BookingCreate(1, 1, 0, 540, "addr", 100))

Next ==
    \/ AddWeeklyAvailability
    \/ AddTimeoff
    \/ CreateService
    \/ UpdateService
    \/ GetAvailableSlots
    \/ CreateBooking

Spec == Init /\ [][Next]_vars

(***************************************************************************)
(* The status endpoints, over one provider with one service of 60 minutes  *)
(* and the Monday window 09:00-17:00.                                      *)
(***************************************************************************)
SetUpService == create_service(1, 1, 60)

SetUpWindow == add_weekly_availability(1, 1, 540, 1020, TRUE)

MondayRequests == {BookingCreate(1, 1, 0, t, "addr", 100) : t \in {540, 600}}

BookMonday == \E u \in {3, 5}, b \in MondayRequests : create_booking(u, b)

ListMonday == GetSlots(1, 1, 0, 30)

\* callers and booking ids of the status endpoints: the parties of each
\* stored booking, a provider and a customer who are not, an id not stored
ProviderCalls ==
    {<<1, id>> : id \in 1 .. MaxBookings} \cup {<<2, 1>>, <<3, 1>>, <<1, MaxBookings + 1>>}

CustomerCalls ==
    {<<u, id>> : u \in {3, 5}, id \in 1 .. MaxBookings} \cup {<<1, 1>>, <<3, MaxBookings + 1>>}

AdminCalls ==
    {<<4, id, st>> : id \in 1 .. MaxBookings, st \in AdminStatuses}
    \cup {<<3, 1, "pending">>, <<4, MaxBookings + 1, "pending">>}

CancelBooking == \E c \in CustomerCalls : cancel_booking(c[1], c[2])

AcceptBooking == \E c \in ProviderCalls : accept_booking(c[1], c[2])

RejectBooking == \E c \in ProviderCalls : reject_booking(c[1], c[2])

CompleteBooking == \E c \in ProviderCalls : complete_booking(c[1], c[2])

AdminUpdateBookingStatus ==
    \E c \in AdminCalls : admin_update_booking_status(c[1], c[2], c[3])

NextStatus ==
    \/ SetUpService
    \/ SetUpWindow
    \/ BookMonday
    \/ ListMonday
    \/ CancelBooking
    \/ AcceptBooking
    \/ RejectBooking
    \/ CompleteBooking
    \/ AdminUpdateBookingStatus

SpecStatus == Init /\ [][NextStatus]_vars

(***************************************************************************)
(* create_booking requests that run concurrently: the checks of one may    *)
(* run between the checks and the commit of another.                       *)
(***************************************************************************)
ValidateBooking == \E u \in {3, 5}, b \in MondayRequests : validate_booking(u, b)

CommitBooking == \E i \in 1 .. MaxInflight : commit_booking(i)

NextConc ==
    \/ SetUpService
    \/ SetUpWindow
    \/ ValidateBooking
    \/ CommitBooking

SpecConc == Init /\ [][NextConc]_vars

(***************************************************************************)
(* Inputs the handlers do not validate.  ServiceCreate and ServiceUpdate   *)
(* take any integer for duration_minutes, and the column has no            *)
(* constraint; add_timeoff compares the dates only.                        *)
(***************************************************************************)
AnyDurations == {0 - 30, 0, 60}

CreateServiceOfAnyDuration == \E dur \in AnyDurations : create_service(1, 1, dur)

UpdateServiceToAnyDuration == \E dur \in AnyDurations : update_service(1, 1, dur)

\* a full day off, an hour off and an hour off with its times swapped, on
\* the Monday
MondayTimeoffs ==
    {<<1, 0, 0, NoTime, NoTime>>, <<1, 0, 0, 600, 660>>, <<1, 0, 0, 660, 600>>}

TakeMondayOff == \E r \in MondayTimeoffs : add_timeoff(r[1], r[2], r[3], r[4], r[5])

ListMondayAtStep == \E i \in {30, 60} : GetSlots(1, 1, 0, i)

BookMondayAs3 == \E b \in MondayRequests : create_booking(3, b)

NextDuration ==
    \/ CreateServiceOfAnyDuration
    \/ UpdateServiceToAnyDuration
    \/ SetUpWindow
    \/ TakeMondayOff
    \/ ListMondayAtStep
    \/ BookMondayAs3

SpecDuration == Init /\ [][NextDuration]_vars

(***************************************************************************)
(* A week and a day: weekly rules on Monday, Wednesday and Sunday, listings *)
(* and bookings on the days 0 (a Monday) to 7 (the Monday after).          *)
(***************************************************************************)
WeekDays == 0 .. 7

\* weekday 0 and weekday 8 do not pass conint(ge=1, le=7)
AddRuleOnWeekday ==
    \E w \in {0, 1, 3, 7, 8} : add_weekly_availability(1, w, 540, 660, TRUE)

ListOnDay == \E d \in WeekDays : GetSlots(1, 1, d, 60)

BookOnDay == \E d \in WeekDays : create_booking(3, BookingCreate(1, 1, d, 540, "addr", 100))

NextWeek ==
    \/ SetUpService
    \/ AddRuleOnWeekday
    \/ ListOnDay
    \/ BookOnDay

SpecWeek == Init /\ [][NextWeek]_vars

(***************************************************************************)
(* One Monday: provider 1 with the adjacent windows 09:00-10:00 and        *)
(* 10:00-12:00, a service of 60 minutes, time off, and the requests of     *)
(* customer 3 around them.                                                 *)
(***************************************************************************)
MondayRules ==
    { <<1, 1, 540, 600, TRUE>>, <<1, 1, 600, 720, TRUE>>,
      <<1, 1, 600, 540, TRUE>>, <<1, 1, 540, 540, TRUE>>, <<3, 1, 540, 600, TRUE>> }

AddMondayRule ==
    \E r \in MondayRules : add_weekly_availability(r[1], r[2], r[3], r[4], r[5])

\* the hour off, Monday and Tuesday off, a Monday off with an end_time and
\* no start_time, and two requests that are refused
MondayAbsences ==
    { <<1, 0, 0, 600, 660>>, <<1, 0, 1, NoTime, NoTime>>, <<1, 0, 0, NoTime, 600>>,
      <<1, 1, 0, 600, 660>>, <<3, 0, 0, 600, 660>> }

TakeTimeOff == \E r \in MondayAbsences : add_timeoff(r[1], r[2], r[3], r[4], r[5])

MondayServices == {<<1, 1, 60>>, <<3, 1, 60>>, <<1, 2, 60>>}

CreateMondayService == \E r \in MondayServices : create_service(r[1], r[2], r[3])

\* 08:30 and 09:30 fit no window, 10:00 and 11:00 fit the second
MondayBookings ==
    {BookingCreate(1, 1, 0, t, "addr", 100) : t \in {510, 570, 600}}
    \cup {BookingCreate(1, 1, 0, 660, "home", 250),
          BookingCreate(1, 1, 1, 600, "addr", 100),
          BookingCreate(9, 1, 0, 600, "addr", 100),
          BookingCreate(1, MaxServices + 1, 0, 600, "addr", 100),
          BookingCreate(9, MaxServices + 1, 0, 600, "addr", 100)}

CreateMondayBooking ==
    \/ \E b \in MondayBookings : create_booking(3, b)
    \/ create_booking(1, BookingCreate(1, 1, 0, 600, "addr", 100))

MondayListings ==
    {<<1, 1, 0, 30>>, <<1, 1, 0, 0>>, <<9, 1, 0, 30>>,
     <<1, MaxServices + 1, 0, 30>>, <<1, 1, BadDate, 30>>}

ListMondaySlots == \E r \in MondayListings : GetSlots(r[1], r[2], r[3], r[4])

NextMonday ==
    \/ AddMondayRule
    \/ TakeTimeOff
    \/ CreateMondayService
    \/ CreateMondayBooking
    \/ ListMondaySlots

SpecMonday == Init /\ [][NextMonday]_vars

(***************************************************************************)
(* The join of bookings with services.  get_provider_bookings_on_date      *)
(* reads the duration of each booking from the services table as it is     *)
(* now, and 60 when the row is not there.  No endpoint deletes a service:  *)
(* the database starts with or without one booking, 11:00 on the Monday,   *)
(* whose service row was removed from the table.                           *)
(***************************************************************************)
OrphanBooking ==
    [customer_id |-> 5, provider_id |-> 1, service_id |-> MaxServices + 1,
     booking_date |-> 0, booking_time |-> 660,
     address |-> "addr", amount |-> 100, status |-> "pending"]

InitJoin ==
    /\ services = <<>>
    /\ availabilities = <<>>
    /\ timeoffs = <<>>
    /\ bookings \in {<<>>, <<OrphanBooking>>}
    /\ inflight = <<>>
    /\ reviews = <<>>
    /\ avg_rating = [u \in UserIds |-> Float(0, 1)]
    /\ resp = Response("none", <<>>, 0, "", <<>>)

ResizeService == \E dur \in {30, 90} : update_service(1, 1, dur)

NextJoin ==
    \/ SetUpService
    \/ SetUpWindow
    \/ ResizeService
    \/ ListMondayAtStep
    \/ BookMondayAs3

SpecJoin == InitJoin /\ [][NextJoin]_vars

(***************************************************************************)
(* Reviews of completed bookings: customer 3 books the Monday, provider 1  *)
(* accepts and completes, customer 3 reviews, the admin deletes reviews    *)
(* through either router.                                                  *)
(***************************************************************************)
AcceptMonday == \E id \in 1 .. MaxBookings : accept_booking(1, id)

CompleteMonday == \E id \in 1 .. MaxBookings : complete_booking(1, id)

\* reviews asked for: <<caller, booking_id, rating>>
ReviewRequests ==
    {<<3, id, rating>> : id \in 1 .. MaxBookings, rating \in {2, 5}}
    \cup {<<5, 1, 5>>, <<1, 1, 5>>, <<3, MaxBookings + 1, 5>>, <<3, 1, 6>>}

CreateReview == \E r \in ReviewRequests : create_review(r[1], r[2], r[3])

\* review deletions asked for: <<caller, review_id>>
ReviewDeletions == {<<4, id>> : id \in 1 .. MaxReviews} \cup {<<3, 1>>}

DeleteReview == \E r \in ReviewDeletions : review_admin_delete_review(r[1], r[2])

ModerateReview == \E r \in ReviewDeletions : admin_admin_delete_review(r[1], r[2])

NextReview ==
    \/ SetUpService
    \/ SetUpWindow
    \/ BookMondayAs3
    \/ AcceptMonday
    \/ CompleteMonday
    \/ CreateReview
    \/ DeleteReview
    \/ ModerateReview

SpecReview == Init /\ [][NextReview]_vars

(***************************************************************************)
(* Two providers side by side: provider 1 offers service 1 (60 minutes),   *)
(* provider 2 offers service 2 (30 minutes); both store the Monday window  *)
(* 09:00-11:00 and time off, customer 3 books either provider for either   *)
(* service, provider 2 changes the duration of service 2.                  *)
(***************************************************************************)
InitTwoProviders ==
    /\ services = <<[provider_id |-> 1, duration_minutes |-> 60],
                    [provider_id |-> 2, duration_minutes |-> 30]>>
    /\ availabilities = <<>>
    /\ timeoffs = <<>>
    /\ bookings = <<>>
    /\ inflight = <<>>
    /\ reviews = <<>>
    /\ avg_rating = [u \in UserIds |-> Float(0, 1)]
    /\ resp = Response("none", <<>>, 0, "", <<>>)

AddProviderRule == \E p \in {1, 2} : add_weekly_availability(p, 1, 540, 660, TRUE)

TakeProviderOff == \E p \in {1, 2} : add_timeoff(p, 0, 0, 600, 660)

\* bookings asked for: either provider with either service, Monday 09:00 or 09:30
CrossRequests ==
    {BookingCreate(p, sid, 0, t, "addr", 100) : p \in {1, 2}, sid \in {1, 2}, t \in {540, 570}}

BookAcross == \E b \in CrossRequests : create_booking(3, b)

\* provider 2 resizes its own service 2, and tries service 1 of provider 1
ResizeSecondService ==
    \/ \E dur \in {30, 90} : update_service(2, 2, dur)
    \/ update_service(2, 1, 90)

ListProvider == \E p \in {1, 2} : GetSlots(p, 1, 0, 30)

NextTwoProviders ==
    \/ AddProviderRule
    \/ TakeProviderOff
    \/ BookAcross
    \/ ResizeSecondService
    \/ ListProvider

SpecTwoProviders == InitTwoProviders /\ [][NextTwoProviders]_vars

(***************************************************************************)
(* Vocabulary of the properties.  It is written from the words of the      *)
(* specification, not from the operators above.                            *)
(***************************************************************************)
\* two half-open ranges of minutes have a minute in common
SharesMinute(a1, a2, b1, b2) == \E m \in a1 .. (a2 - 1) : b1 <= m /\ m < b2

\* ISO weekday of a day number, 1 = Monday .. 7 = Sunday
IsoWeekday(d) == CHOOSE w \in 1 .. 7 : (d - (w - 1)) % 7 = 0

DurationOf(service_id) == services[service_id].duration_minutes

\* the bookings that were stored when the last request was handled
BookingsBefore ==
    IF resp.op = "create_booking" /\ resp.code = 200
    THEN SubSeq(bookings, 1, Len(bookings) - 1)
    ELSE bookings

\* the interval a stored booking occupies: <<start, end>>
Occupied(b) ==
    <<b.booking_date * 1440 + b.booking_time,
      b.booking_date * 1440 + b.booking_time + DurationOf(b.service_id)>>

\* a time-off rule blocks a minute in [s, e)
TimeOffBlocks(t, s, e) ==
    \E d \in t.start_date .. t.end_date :
        IF t.start_time # NoTime /\ t.end_time # NoTime
        THEN SharesMinute(s, e, d * 1440 + t.start_time, d * 1440 + t.end_time)
        ELSE SharesMinute(s, e, d * 1440, (d + 1) * 1440)

\* a weekly rule of provider p, active, for the weekday of day d, holds [s, e]
RuleContains(w, p, d, s, e) ==
    /\ w.provider_id = p
    /\ w.is_active
    /\ w.weekday = IsoWeekday(d)
    /\ d * 1440 + w.start_time <= s
    /\ e <= d * 1440 + w.end_time

\* the last request listed slots and was answered with a list
SlotsListed == resp.op = "slots" /\ resp.code = 200

\* start datetime of the i-th slot of the last listing
SlotStart(i) == parse_iso(resp.slots[i]).date * 1440 + parse_iso(resp.slots[i]).time

SlotStarts == {SlotStart(i) : i \in 1 .. Len(resp.slots)}

Customers == {u \in UserIds : UserRole(u) = "customer"}

(***************************************************************************)
(* C1  Validator/generator agreement: every start time a slot listing      *)
(* returns for provider P, service X and date D is accepted by             *)
(* create_booking, called by a customer for P, X, D and that time on the   *)
(* database the listing read; none of the rejections is raised.            *)
(***************************************************************************)
C1_Agreement ==
    SlotsListed =>
        \A i \in 1 .. Len(resp.slots) : \A u \in Customers :
            create_booking_check(u,
                BookingCreate(resp.req[1], resp.req[2],
                              parse_iso(resp.slots[i]).date,
                              parse_iso(resp.slots[i]).time, "addr", 100)).code = 200

\* a listing that returned slots while a booking and a time off are stored
C1_Witness ==
    /\ SlotsListed
    /\ Len(resp.slots) > 0
    /\ bookings # <<>>
    /\ timeoffs # <<>>

(***************************************************************************)
(* C3  Containment: every slot start S a listing returns for provider P,   *)
(* service X and date D lies, with S + duration(X), inside one weekly rule *)
(* of P that is active and whose weekday is the weekday of D.              *)
(***************************************************************************)
C3_Containment ==
    SlotsListed =>
        \A S \in SlotStarts :
            \E i \in 1 .. Len(availabilities) :
                RuleContains(availabilities[i], resp.req[1], resp.req[3],
                             S, S + DurationOf(resp.req[2]))

\* slots were listed while the provider also has an inactive rule
C3_Witness ==
    /\ SlotsListed
    /\ Len(resp.slots) > 0
    /\ \E i \in 1 .. Len(availabilities) : ~availabilities[i].is_active

(***************************************************************************)
(* C4  No generated slot conflicts: for every slot start S a listing       *)
(* returns, [S, S + duration) has no minute in common with the interval of *)
(* any booking of the provider on that date nor with any time-off block of *)
(* the provider.                                                           *)
(***************************************************************************)
C4_NoSlotConflict ==
    SlotsListed =>
        \A S \in SlotStarts :
            LET E == S + DurationOf(resp.req[2]) IN
            /\ \A i \in 1 .. Len(bookings) :
                  (/\ bookings[i].provider_id = resp.req[1]
                   /\ bookings[i].booking_date = resp.req[3])
                  => ~SharesMinute(S, E, Occupied(bookings[i])[1], Occupied(bookings[i])[2])
            /\ \A i \in 1 .. Len(timeoffs) :
                  timeoffs[i].provider_id = resp.req[1] => ~TimeOffBlocks(timeoffs[i], S, E)

\* slots were listed for the second day of a time off that starts the day
\* before and blocks part of the days only
C4_Witness ==
    /\ SlotsListed
    /\ Len(resp.slots) > 0
    /\ bookings # <<>>
    /\ \E i \in 1 .. Len(timeoffs) :
          /\ timeoffs[i].start_date < resp.req[3]
          /\ timeoffs[i].end_date >= resp.req[3]

(***************************************************************************)
(* C5  Half-open boundary law, in the listing and in create_booking: an    *)
(* interval that only touches a booking (its start is the booking's end,   *)
(* or its end the booking's start) is no conflict, and an interval that    *)
(* has a minute in common with a booking is one.  A candidate of the       *)
(* listing that no time off blocks is returned exactly when it has no      *)
(* minute in common with a booking of the provider on the date; a request  *)
(* that fits a window is rejected as overlapping exactly when it has one,  *)
(* and is accepted when in addition no time off blocks it.                 *)
(***************************************************************************)
\* the starts the listing tries in the window of rule w
GridStarts(w, d, duration, step) ==
    {S \in (d * 1440 + w.start_time) .. (d * 1440 + w.end_time - duration) :
        (S - (d * 1440 + w.start_time)) % step = 0}

SharesMinuteWithBooking(bks, p, d, S, E) ==
    \E i \in 1 .. Len(bks) :
        /\ bks[i].provider_id = p
        /\ bks[i].booking_date = d
        /\ SharesMinute(S, E, Occupied(bks[i])[1], Occupied(bks[i])[2])

TimeOffBlocked(p, S, E) ==
    \E i \in 1 .. Len(timeoffs) :
        timeoffs[i].provider_id = p /\ TimeOffBlocks(timeoffs[i], S, E)

OverlapDetail == "Requested time overlaps an existing booking"

C5_Boundary ==
    /\ SlotsListed =>
          LET p == resp.req[1]
              d == resp.req[3]
              duration == DurationOf(resp.req[2])
          IN  \A i \in 1 .. Len(availabilities) :
                  LET w == availabilities[i] IN
                  (w.provider_id = p /\ w.is_active /\ w.weekday = IsoWeekday(d)) =>
                      \A S \in GridStarts(w, d, duration, resp.req[4]) :
                          ~TimeOffBlocked(p, S, S + duration) =>
                              (S \in SlotStarts <=>
                                  ~SharesMinuteWithBooking(bookings, p, d, S, S + duration))
    /\ (resp.op = "create_booking" /\ resp.code \notin {403, 404}) =>
          LET b == resp.req[2]
              S == b.booking_date * 1440 + b.booking_time
              E == S + DurationOf(b.service_id)
              fits == \E i \in 1 .. Len(availabilities) :
                          RuleContains(availabilities[i], b.provider_id, b.booking_date, S, E)
              shares == SharesMinuteWithBooking(BookingsBefore, b.provider_id,
                                                b.booking_date, S, E)
          IN  /\ resp.detail = OverlapDetail => shares
              /\ (fits /\ shares) => resp.detail = OverlapDetail
              /\ (fits /\ ~shares /\ ~TimeOffBlocked(b.provider_id, S, E)) => resp.code = 200

\* two stored bookings touch (the second was accepted at the end of the
\* first) and the listing returns a slot ending where a booking starts and
\* a slot starting where a booking ends
C5_Witness ==
    /\ SlotsListed
    /\ \E i, j \in 1 .. Len(bookings) :
          /\ Occupied(bookings[j])[1] = Occupied(bookings[i])[2]
          /\ Occupied(bookings[i])[1] - DurationOf(resp.req[2]) \in SlotStarts
          /\ Occupied(bookings[j])[2] \in SlotStarts

(***************************************************************************)
(* C9  Scenario 1: one active weekly window Monday 09:00-17:00, a service  *)
(* of 60 minutes, no booking, no time off; the listing for a Monday with a *)
(* step of 30 returns slots from 09:00 to 16:00, 30 minutes apart.  The    *)
(* claim counts 16 slots; the code returns 15.                             *)
(***************************************************************************)
\* the listing of provider 1, service 1 (60 minutes), Monday day 0, step
\* 30, when the only active Monday rule of the provider is 09:00-17:00
ScenarioListing ==
    /\ SlotsListed
    /\ resp.req = <<1, 1, 0, 30>>
    /\ DurationOf(1) = 60
    /\ LET act == {i \in 1 .. Len(availabilities) :
                      /\ availabilities[i].provider_id = 1
                      /\ availabilities[i].is_active
                      /\ availabilities[i].weekday = 1}
       IN  /\ Cardinality(act) = 1
           /\ \A i \in act : /\ availabilities[i].start_time = 540
                             /\ availabilities[i].end_time = 1020
    /\ \A i \in 1 .. Len(timeoffs) : timeoffs[i].provider_id # 1

Scenario1 ==
    /\ ScenarioListing
    /\ \A i \in 1 .. Len(bookings) : bookings[i].provider_id # 1

FromNineToFourEveryHalfHour ==
    /\ resp.slots # <<>>
    /\ resp.slots[1] = <<0, 9, 0>>
    /\ resp.slots[Len(resp.slots)] = <<0, 16, 0>>
    /\ \A i \in 1 .. Len(resp.slots) - 1 : SlotStart(i + 1) = SlotStart(i) + 30

\* the claim as written: 16 slots
C9_Original == Scenario1 => (FromNineToFourEveryHalfHour /\ Len(resp.slots) = 16)

\* the claim as amended: 15 slots
C9_Scenario1 == Scenario1 => (FromNineToFourEveryHalfHour /\ Len(resp.slots) = 15)

C9_Witness == Scenario1 /\ Len(resp.slots) = 15

(***************************************************************************)
(* C10  Scenario 2: the window, service and step of scenario 1 and one     *)
(* booking occupying 10:00-11:00.  The claim has 09:00 and 09:30 returned, *)
(* 10:00 and 10:30 omitted and 11:00 returned; in the code 09:30 is        *)
(* omitted too, since 09:30-10:30 overlaps the booking.                    *)
(***************************************************************************)
Scenario2 ==
    /\ ScenarioListing
    /\ LET mine == {i \in 1 .. Len(bookings) : bookings[i].provider_id = 1}
       IN  /\ Cardinality(mine) = 1
           /\ \A i \in mine : /\ bookings[i].booking_date = 0
                              /\ bookings[i].booking_time = 600
                              /\ bookings[i].service_id = 1

Listed(slot) == \E i \in 1 .. Len(resp.slots) : resp.slots[i] = slot

\* the claim as written
C10_Original ==
    Scenario2 =>
        /\ Listed(<<0, 9, 0>>) /\ Listed(<<0, 9, 30>>)
        /\ ~Listed(<<0, 10, 0>>) /\ ~Listed(<<0, 10, 30>>)
        /\ Listed(<<0, 11, 0>>)

\* the claim as amended: 09:30 is omitted
C10_Scenario2 ==
    Scenario2 =>
        /\ Listed(<<0, 9, 0>>) /\ ~Listed(<<0, 9, 30>>)
        /\ ~Listed(<<0, 10, 0>>) /\ ~Listed(<<0, 10, 30>>)
        /\ Listed(<<0, 11, 0>>)

C10_Witness == Scenario2 /\ Listed(<<0, 11, 0>>)

(***************************************************************************)
(* C2  Two concurrent create_booking requests for the same provider, date, *)
(* time and service: exactly one succeeds; a state holding both bookings   *)
(* is never reached.  The code has neither a transaction around the checks *)
(* and the insert nor a uniqueness constraint on bookings: both succeed.   *)
(***************************************************************************)
C2_NeverBothBookings ==
    \A i, j \in 1 .. Len(bookings) :
        (/\ i # j
         /\ bookings[i].provider_id = bookings[j].provider_id
         /\ bookings[i].booking_date = bookings[j].booking_date
         /\ bookings[i].booking_time = bookings[j].booking_time
         /\ bookings[i].service_id = bookings[j].service_id) => FALSE

(***************************************************************************)
(* C6  Booking status state machine: every change of a booking's status,   *)
(* by any endpoint that writes it, is pending -> accepted, pending ->      *)
(* rejected, pending -> canceled or accepted -> completed.  The admin      *)
(* status update stores any status over any status.                        *)
(***************************************************************************)
LegalTransitions ==
    { <<"pending", "accepted">>, <<"pending", "rejected">>,
      <<"pending", "canceled">>, <<"accepted", "completed">> }

C6_StateMachine ==
    [][\A id \in 1 .. Len(bookings) :
          bookings'[id].status # bookings[id].status =>
              <<bookings[id].status, bookings'[id].status>> \in LegalTransitions]_vars

(***************************************************************************)
(* C7  Illegal transitions are rejected with the state unchanged: cancel,  *)
(* accept and reject of a booking that is not pending, and complete of a   *)
(* booking that is not accepted, answer with an error and leave the        *)
(* booking (and every table) as it was; the error is the 400 of the status *)
(* test when the caller is the customer (cancel) or the provider (accept,  *)
(* reject, complete) of the booking.                                       *)
(***************************************************************************)
StatusOps == {"cancel_booking", "accept_booking", "reject_booking", "complete_booking"}

RequiredStatus(op) == IF op = "complete_booking" THEN "accepted" ELSE "pending"

\* the caller of a status endpoint is the party of the booking it is for
IsPartyOf(op, u, b) ==
    IF op = "cancel_booking"
    THEN UserRole(u) = "customer" /\ b.customer_id = u
    ELSE UserRole(u) = "provider" /\ b.provider_id = u

C7_IllegalTransitionRejected ==
    [][(/\ resp'.op \in StatusOps
        /\ resp'.req[2] \in 1 .. Len(bookings)
        /\ bookings[resp'.req[2]].status # RequiredStatus(resp'.op))
       => /\ UNCHANGED <<bookings, services, availabilities, timeoffs>>
          /\ resp'.code \in {400, 403}
          /\ IsPartyOf(resp'.op, resp'.req[1], bookings[resp'.req[2]])
                => resp'.code = 400]_vars

\* complete_booking, called by its provider on a pending booking, was
\* answered 400
C7_Witness ==
    /\ resp.op = "complete_booking"
    /\ resp.code = 400
    /\ resp.req[2] \in 1 .. Len(bookings)
    /\ bookings[resp.req[2]].status = "pending"
    /\ bookings[resp.req[2]].provider_id = resp.req[1]

(***************************************************************************)
(* C8  Occupancy ignores status: a booking occupies its interval in every  *)
(* status.  Whatever the status of a stored booking, a listing for its     *)
(* provider and date returns no slot that has a minute in common with it,  *)
(* and create_booking for an interval that has one is rejected, with the   *)
(* overlap reason when the request fits a window.                          *)
(***************************************************************************)
C8_OccupancyIgnoresStatus ==
    \A k \in 1 .. Len(BookingsBefore) :
        LET old == BookingsBefore[k] IN
        /\ (SlotsListed /\ resp.req[1] = old.provider_id /\ resp.req[3] = old.booking_date) =>
              \A S \in SlotStarts :
                  ~SharesMinute(S, S + DurationOf(resp.req[2]),
                                Occupied(old)[1], Occupied(old)[2])
        /\ (resp.op = "create_booking" /\ resp.code \notin {403, 404}) =>
              LET b == resp.req[2]
                  S == b.booking_date * 1440 + b.booking_time
                  E == S + DurationOf(b.service_id)
              IN  (/\ b.provider_id = old.provider_id
                   /\ b.booking_date = old.booking_date
                   /\ SharesMinute(S, E, Occupied(old)[1], Occupied(old)[2]))
                  => /\ resp.code = 400
                     /\ (\E i \in 1 .. Len(availabilities) :
                            RuleContains(availabilities[i], b.provider_id,
                                         b.booking_date, S, E))
                        => resp.detail = OverlapDetail

\* every stored booking is canceled or rejected, and a request over one of
\* them was rejected as overlapping
C8_Witness ==
    /\ resp.op = "create_booking"
    /\ resp.detail = OverlapDetail
    /\ bookings # <<>>
    /\ \A k \in 1 .. Len(bookings) : bookings[k].status \in {"canceled", "rejected"}
    /\ \E k \in 1 .. Len(bookings) : bookings[k].status = "canceled"

(***************************************************************************)
(* C11  Scenario 3: when the provider has a time-off rule with no          *)
(* start_time and no end_time whose date range includes the target date,   *)
(* the listing returns the empty list, for every set of weekly windows,    *)
(* every stored service duration and every step.  A service of duration 0  *)
(* or less is stored as readily as any other (C21), and its slots overlap  *)
(* nothing: the listing returns them on the day off.                       *)
(***************************************************************************)
\* provider p has a full-day time off over day d
FullDayOff(p, d) ==
    \E i \in 1 .. Len(timeoffs) :
        /\ timeoffs[i].provider_id = p
        /\ timeoffs[i].start_time = NoTime
        /\ timeoffs[i].end_time = NoTime
        /\ timeoffs[i].start_date <= d
        /\ d <= timeoffs[i].end_date

\* the last request was a listing for an existing service and a valid date
ListingAnswered == resp.op = "slots" /\ resp.code \notin {400, 404}

C11_FullDayOffEmpty ==
    (ListingAnswered /\ FullDayOff(resp.req[1], resp.req[3]))
        => (resp.code = 200 /\ resp.slots = <<>>)

(***************************************************************************)
(* C12  Strict single-window containment in create_booking: when the       *)
(* provider has an active window on the requested weekday but no single    *)
(* window holds the whole request (requested_start >= window_start and     *)
(* requested_end <= window_end), the request is rejected with the          *)
(* outside-availability reason: a request that starts before its window,   *)
(* and a request that only the union of two adjacent windows covers.       *)
(***************************************************************************)
OutsideDetail == "Requested time is outside provider availability"

\* the last request was a create_booking that reached the slot validation
BookingValidated == resp.op = "create_booking" /\ resp.code \notin {403, 404}

\* the interval asked for by the last create_booking
RequestedStart == resp.req[2].booking_date * 1440 + resp.req[2].booking_time

RequestedEnd == RequestedStart + DurationOf(resp.req[2].service_id)

\* rule w is an active rule of provider p for the weekday of day d
ActiveOn(w, p, d) == w.provider_id = p /\ w.is_active /\ w.weekday = IsoWeekday(d)

C12_SingleWindowContainment ==
    BookingValidated =>
        LET b == resp.req[2]
            active == {i \in 1 .. Len(availabilities) :
                          ActiveOn(availabilities[i], b.provider_id, b.booking_date)}
            contained == \E i \in active :
                            RuleContains(availabilities[i], b.provider_id,
                                         b.booking_date, RequestedStart, RequestedEnd)
        IN  (active # {} /\ ~contained) => (resp.code = 400 /\ resp.detail = OutsideDetail)

\* a rejected request that two adjacent active windows cover together and
\* neither covers alone
C12_Witness ==
    /\ BookingValidated
    /\ resp.detail = OutsideDetail
    /\ LET b == resp.req[2] IN
       \E i, j \in 1 .. Len(availabilities) :
          /\ ActiveOn(availabilities[i], b.provider_id, b.booking_date)
          /\ ActiveOn(availabilities[j], b.provider_id, b.booking_date)
          /\ availabilities[i].end_time = availabilities[j].start_time
          /\ b.booking_date * 1440 + availabilities[i].start_time <= RequestedStart
          /\ RequestedStart < b.booking_date * 1440 + availabilities[i].end_time
          /\ b.booking_date * 1440 + availabilities[i].end_time < RequestedEnd
          /\ RequestedEnd <= b.booking_date * 1440 + availabilities[j].end_time

CheckDetails ==
    << "Service not found", "Provider not found",
       "Provider has no availability on this day", OutsideDetail, OverlapDetail,
       "Requested time falls during provider time off" >>

CheckCodes == <<404, 404, 400, 400, 400, 400>>

\* check k fails for request b on the database the request read; the checks
\* on the requested interval need the duration of the service
CheckFails(k, b) ==
    LET known == b.service_id \in 1 .. Len(services)
        S == b.booking_date * 1440 + b.booking_time
        E == S + DurationOf(b.service_id)
    IN  CASE k = 1 -> ~known
          [] k = 2 -> ~(b.provider_id \in UserIds /\ UserRole(b.provider_id) = "provider")
          [] k = 3 -> ~\E i \in 1 .. Len(availabilities) :
                          ActiveOn(availabilities[i], b.provider_id, b.booking_date)
          [] k = 4 -> known /\ ~\E i \in 1 .. Len(availabilities) :
                          RuleContains(availabilities[i], b.provider_id, b.booking_date, S, E)
          [] k = 5 -> known /\ SharesMinuteWithBooking(BookingsBefore, b.provider_id,
                                                       b.booking_date, S, E)
          [] OTHER -> known /\ TimeOffBlocked(b.provider_id, S, E)

FailingChecks(b) == {k \in 1 .. 6 : CheckFails(k, b)}

FirstOf(ks) == CHOOSE k \in ks : \A other \in ks : k <= other

C14_FirstFailingCheck ==
    (resp.op = "create_booking" /\ UserRole(resp.req[1]) = "customer") =>
        LET failing == FailingChecks(resp.req[2]) IN
        IF failing = {}
        THEN resp.code = 200
        ELSE /\ resp.detail = CheckDetails[FirstOf(failing)]
             /\ resp.code = CheckCodes[FirstOf(failing)]

\* a request rejected as overlapping a booking that a time off blocks too
C14_Witness ==
    /\ resp.op = "create_booking"
    /\ resp.detail = OverlapDetail
    /\ {5, 6} \subseteq FailingChecks(resp.req[2])

(***************************************************************************)
(* C15  Frame of create_booking: a request that is rejected or not found   *)
(* leaves bookings, weekly rules, time-off rules and services unchanged;   *)
(* an accepted request adds exactly one booking, pending, of the caller,   *)
(* with the requested provider, service, date, time, address and amount,   *)
(* and changes nothing else.                                               *)
(***************************************************************************)
C15_CreateBookingFrame ==
    [][resp'.op = "create_booking" =>
          /\ UNCHANGED <<services, availabilities, timeoffs>>
          /\ IF resp'.code = 200
             THEN /\ Len(bookings') = Len(bookings) + 1
                  /\ \A i \in 1 .. Len(bookings) : bookings'[i] = bookings[i]
                  /\ LET stored == bookings'[Len(bookings')]
                         asked == resp'.req[2]
                     IN  /\ stored.status = "pending"
                         /\ stored.customer_id = resp'.req[1]
                         /\ stored.provider_id = asked.provider_id
                         /\ stored.service_id = asked.service_id
                         /\ stored.booking_date = asked.booking_date
                         /\ stored.booking_time = asked.booking_time
                         /\ stored.address = asked.address
                         /\ stored.amount = asked.amount
             ELSE UNCHANGED bookings]_vars

\* a second booking was accepted, for another time, address and amount
\* than the first
C15_Witness ==
    /\ resp.op = "create_booking"
    /\ resp.code = 200
    /\ Len(bookings) = 2
    /\ bookings[2].address # bookings[1].address
    /\ bookings[2].amount # bookings[1].amount
    /\ bookings[2].booking_time # bookings[1].booking_time

(***************************************************************************)
(* C16  The slot listing terminates and returns a finite list for every    *)
(* input the endpoint accepts, a step interval_minutes of 0 or less        *)
(* included.  The query parameter has no lower bound and the loop advances *)
(* its cursor by the step: with a step of 0 the loop of any window the     *)
(* service fits in never ends.                                             *)
(***************************************************************************)
C16_ListingTerminates == resp.op = "slots" => resp.code # 0

(***************************************************************************)
(* C17  Asymmetric provider handling: for a provider id that matches no    *)
(* user, a slot listing with an existing service returns the empty list    *)
(* and no error, whereas create_booking for that provider id fails with    *)
(* provider not found and creates nothing.                                 *)
(***************************************************************************)
C17_UnknownProvider ==
    [][/\ (/\ resp'.op = "slots"
           /\ resp'.req[1] \notin UserIds
           /\ resp'.req[2] \in 1 .. Len(services)
           /\ resp'.req[3] # BadDate)
          => (resp'.code = 200 /\ resp'.slots = <<>>)
       /\ (/\ resp'.op = "create_booking"
           /\ UserRole(resp'.req[1]) = "customer"
           /\ resp'.req[2].provider_id \notin UserIds
           /\ resp'.req[2].service_id \in 1 .. Len(services))
          => /\ resp'.code = 404
             /\ resp'.detail = "Provider not found"
             /\ UNCHANGED bookings]_vars

\* the empty listing of an unknown provider, for a Monday on which a known
\* provider has an active window and for a stored service
C17_Witness ==
    /\ resp.op = "slots"
    /\ resp.code = 200
    /\ resp.slots = <<>>
    /\ resp.req[1] \notin UserIds
    /\ \E i \in 1 .. Len(availabilities) :
          availabilities[i].is_active /\ availabilities[i].weekday = IsoWeekday(resp.req[3])

(***************************************************************************)
(* C18  The weekday convention is the same in storage, generation and      *)
(* validation: a weekly rule stored with weekday w in 1 .. 7 (1 = Monday,  *)
(* 7 = Sunday) gives slots in the listing, and satisfies containment in    *)
(* create_booking, on exactly the dates whose ISO weekday is w.  Every     *)
(* stored weekday is in 1 .. 7; every listed slot and every accepted       *)
(* booking lies in a rule of the ISO weekday of its date; every free       *)
(* candidate of a rule of that weekday is listed, and accepted when asked  *)
(* for; "no availability" is answered exactly when no active rule has the  *)
(* ISO weekday of the date.                                                *)
(***************************************************************************)
NoAvailabilityDetail == "Provider has no availability on this day"

C19_RuleTimesOrdered ==
    [][/\ \A i \in 1 .. Len(availabilities') :
             availabilities'[i].start_time < availabilities'[i].end_time
       /\ (/\ resp'.op = "add_weekly_availability"
           /\ UserRole(resp'.req[1]) = "provider"
           /\ resp'.req[2] \in 1 .. 7
           /\ resp'.req[3] >= resp'.req[4])
          => (resp'.code = 400 /\ UNCHANGED availabilities)
       /\ resp'.op # "add_weekly_availability" => UNCHANGED availabilities]_vars

\* a rule with start_time = end_time was refused while a rule is stored
C19_Witness ==
    /\ resp.op = "add_weekly_availability"
    /\ resp.code = 400
    /\ resp.req[3] = resp.req[4]
    /\ availabilities # <<>>

(***************************************************************************)
(* C20  Invalid time-off ranges are rejected at the boundary: add_timeoff  *)
(* refuses a request with start_date > end_date and a request with both    *)
(* times present and start_time >= end_time; hence every stored time-off   *)
(* rule has start_date <= end_date and, when both times are set,           *)
(* start_time < end_time.  The handler compares the dates only: a rule     *)
(* with its times swapped is stored.                                       *)
(***************************************************************************)
C20_StoredTimeoffsValid ==
    \A i \in 1 .. Len(timeoffs) :
        /\ timeoffs[i].start_date <= timeoffs[i].end_date
        /\ (timeoffs[i].start_time # NoTime /\ timeoffs[i].end_time # NoTime)
              => timeoffs[i].start_time < timeoffs[i].end_time

(***************************************************************************)
(* C21  Every stored service has a positive duration: after any sequence   *)
(* of create_service and update_service calls, duration_minutes >= 1 for   *)
(* every service.  Neither schema bounds the integer and neither handler   *)
(* tests it: a duration of 0 or less is stored as sent.                    *)
(***************************************************************************)
C21_PositiveDurations ==
    \A i \in 1 .. Len(services) : services[i].duration_minutes >= 1

(***************************************************************************)
(* C22  The list a listing returns is the concatenation, over the active   *)
(* windows of the provider for the weekday, each taken on its own and none *)
(* merged, of the window's complete candidate list: the starts             *)
(* window_start + k * step with start + duration <= window_end that have   *)
(* no minute in common with a booking of the date nor with a time-off      *)
(* block, in ascending order.  A conflicting candidate is dropped and the  *)
(* candidates after it are still tried; a start that n windows hold on     *)
(* their grids is listed n times.                                          *)
(***************************************************************************)
\* the elements of a set of numbers in ascending order
RECURSIVE Ascending(_)
Ascending(set) ==
    IF set = {} THEN <<>>
    ELSE LET least == CHOOSE x \in set : \A y \in set : x <= y
         IN  <<least>> \o Ascending(set \ {least})

\* the free candidates of rule w for provider p on day d
FreeStarts(w, p, d, duration, step) ==
    {S \in GridStarts(w, d, duration, step) :
        /\ ~SharesMinuteWithBooking(bookings, p, d, S, S + duration)
        /\ ~TimeOffBlocked(p, S, S + duration)}

\* the candidate lists of the rules i .. Len(availabilities), one after another
RECURSIVE CandidateLists(_, _, _, _, _)
CandidateLists(i, p, d, duration, step) ==
    IF i > Len(availabilities) THEN <<>>
    ELSE (IF ActiveOn(availabilities[i], p, d)
          THEN Ascending(FreeStarts(availabilities[i], p, d, duration, step))
          ELSE <<>>)
         \o CandidateLists(i + 1, p, d, duration, step)

C22_ConcatenatedCandidates ==
    SlotsListed =>
        [i \in 1 .. Len(resp.slots) |-> SlotStart(i)]
            = CandidateLists(1, resp.req[1], resp.req[3],
                             DurationOf(resp.req[2]), resp.req[4])

\* a listing with a start listed twice and a start listed after candidates
\* that a booking made drop
C22_Witness ==
    /\ SlotsListed
    /\ \E i, j \in 1 .. Len(resp.slots) : i # j /\ resp.slots[i] = resp.slots[j]
    /\ \E S \in SlotStarts :
          SharesMinuteWithBooking(bookings, resp.req[1], resp.req[3],
                                  S - resp.req[4], S - resp.req[4] + DurationOf(resp.req[2]))

(***************************************************************************)
(* C23  The list a listing returns is in non-decreasing chronological      *)
(* order, for every set of active windows of the provider: several on one  *)
(* weekday, stored in any order, overlapping or not.  The query on the     *)
(* windows has no ORDER BY and the list is not sorted: the slots of a      *)
(* window stored first come first, whatever its hours.                     *)
(***************************************************************************)
C23_Chronological ==
    SlotsListed =>
        \A i, j \in 1 .. Len(resp.slots) : i < j => SlotStart(i) <= SlotStart(j)

(***************************************************************************)
(* C24  A time-off rule with exactly one of start_time and end_time set is *)
(* a full-day block: on every date of its inclusive range every non-empty  *)
(* slot interval of the provider is blocked.  A listing for such a date    *)
(* and a service of positive duration returns no slot; create_booking for  *)
(* such a date is rejected, with the time-off reason when the request fits *)
(* a window and overlaps no booking.                                       *)
(***************************************************************************)
TimeOffDetail == "Requested time falls during provider time off"

\* provider p has a time off over day d with exactly one of its times set
OneSidedOff(p, d) ==
    \E i \in 1 .. Len(timeoffs) :
        /\ timeoffs[i].provider_id = p
        /\ (timeoffs[i].start_time = NoTime) # (timeoffs[i].end_time = NoTime)
        /\ timeoffs[i].start_date <= d
        /\ d <= timeoffs[i].end_date

C24_OneSidedIsFullDay ==
    /\ (/\ SlotsListed
        /\ OneSidedOff(resp.req[1], resp.req[3])
        /\ DurationOf(resp.req[2]) >= 1)
       => resp.slots = <<>>
    /\ (/\ BookingValidated
        /\ OneSidedOff(resp.req[2].provider_id, resp.req[2].booking_date)
        /\ DurationOf(resp.req[2].service_id) >= 1)
       => /\ resp.code = 400
          /\ FailingChecks(resp.req[2]) \cap {3, 4, 5} = {} => resp.detail = TimeOffDetail

\* a request was rejected for time off while every time off stored has no
\* start_time and an end_time that is not after the start of the request
C24_Witness ==
    /\ BookingValidated
    /\ resp.detail = TimeOffDetail
    /\ timeoffs # <<>>
    /\ \A i \in 1 .. Len(timeoffs) :
          /\ timeoffs[i].start_time = NoTime
          /\ timeoffs[i].end_time # NoTime
          /\ resp.req[2].booking_time >= timeoffs[i].end_time

(***************************************************************************)
(* C25  Occupancy is a live join: a stored booking occupies                *)
(* [booking_date + booking_time, + the current duration_minutes of its     *)
(* service), and 60 minutes when its service row is missing.  Whatever     *)
(* update_service has made of the duration since the booking was stored,   *)
(* a listing returns a free candidate exactly when it has no minute in     *)
(* common with that interval, and create_booking rejects a request that    *)
(* fits a window as overlapping exactly when it has one.                   *)
(***************************************************************************)
\* the interval booking b occupies now: <<start, end>>
OccupiedNow(b) ==
    LET start == b.booking_date * 1440 + b.booking_time
    IN  <<start,
          start + (IF b.service_id \in 1 .. Len(services)
                   THEN services[b.service_id].duration_minutes
                   ELSE 60)>>

SharesMinuteNow(bks, p, d, S, E) ==
    \E i \in 1 .. Len(bks) :
        /\ bks[i].provider_id = p
        /\ bks[i].booking_date = d
        /\ SharesMinute(S, E, OccupiedNow(bks[i])[1], OccupiedNow(bks[i])[2])

C25_LiveJoin ==
    /\ SlotsListed =>
          LET p == resp.req[1]
              d == resp.req[3]
              duration == DurationOf(resp.req[2])
          IN  \A i \in 1 .. Len(availabilities) :
                  ActiveOn(availabilities[i], p, d) =>
                      \A S \in GridStarts(availabilities[i], d, duration, resp.req[4]) :
                          ~TimeOffBlocked(p, S, S + duration) =>
                              (S \in SlotStarts <=>
                                  ~SharesMinuteNow(bookings, p, d, S, S + duration))
    /\ BookingValidated =>
          LET b == resp.req[2]
              fits == \E i \in 1 .. Len(availabilities) :
                          RuleContains(availabilities[i], b.provider_id,
                                       b.booking_date, RequestedStart, RequestedEnd)
              shares == SharesMinuteNow(BookingsBefore, b.provider_id, b.booking_date,
                                        RequestedStart, RequestedEnd)
          IN  /\ resp.detail = OverlapDetail => shares
              /\ (fits /\ shares) => resp.detail = OverlapDetail
              /\ (fits /\ ~shares /\ ~TimeOffBlocked(b.provider_id, RequestedStart, RequestedEnd))
                    => resp.code = 200

\* a listing made while the booking of 10:00, stored when its service took
\* an hour at most, runs into the booking of 11:00 whose service row is
\* missing: its service has been made longer since
C25_Witness ==
    /\ SlotsListed
    /\ resp.slots # <<>>
    /\ \E i, j \in 1 .. Len(bookings) :
          /\ bookings[i].service_id \notin 1 .. Len(services)
          /\ bookings[j].service_id \in 1 .. Len(services)
          /\ OccupiedNow(bookings[j])[1] < OccupiedNow(bookings[i])[1]
          /\ OccupiedNow(bookings[j])[2] > OccupiedNow(bookings[i])[1]

(***************************************************************************)
(* C26  The rating aggregate of a provider is recomputed on every review   *)
(* mutation: after any sequence of review creations and deletions, through *)
(* create_review, DELETE /reviews/{id} and DELETE /admin/reviews/{id},     *)
(* avg_rating of each provider is the sum of the ratings of the provider's *)
(* current reviews divided by their number, and 0 when there is none.      *)
(* DELETE /admin/reviews/{id} deletes the row and recomputes nothing.      *)
(***************************************************************************)
\* the ratings of the reviews provider p has now, as a bag: rating -> count
CurrentRatings(p) ==
    [rating \in 1 .. 5 |->
        Cardinality({i \in 1 .. Len(reviews) :
            /\ ~reviews[i].deleted
            /\ reviews[i].provider_id = p
            /\ reviews[i].rating = rating})]

RatingCount(p) ==
    CurrentRatings(p)[1] + CurrentRatings(p)[2] + CurrentRatings(p)[3]
        + CurrentRatings(p)[4] + CurrentRatings(p)[5]

RatingSum(p) ==
    CurrentRatings(p)[1] + 2 * CurrentRatings(p)[2] + 3 * CurrentRatings(p)[3]
        + 4 * CurrentRatings(p)[4] + 5 * CurrentRatings(p)[5]

\* avg_rating of p is the number num / den
IsAverage(p, num, den) == avg_rating[p][1] * den = num * avg_rating[p][2]

C26_RatingIsAverage ==
    \A p \in {u \in UserIds : UserRole(u) = "provider"} :
        IF RatingCount(p) = 0
        THEN IsAverage(p, 0, 1)
        ELSE IsAverage(p, RatingSum(p), RatingCount(p))

(***************************************************************************)
(* C27  No double booking under sequential execution: after any sequence   *)
(* of whole public operations, no two bookings of one provider on one date *)
(* have occupied intervals that share a minute, each interval taken with   *)
(* the current duration of the booking's service.  update_service changes  *)
(* the duration under the stored bookings without looking at them.         *)
(***************************************************************************)
C27_NoDoubleBooking ==
    \A i, j \in 1 .. Len(bookings) :
        (/\ i < j
         /\ bookings[i].provider_id = bookings[j].provider_id
         /\ bookings[i].booking_date = bookings[j].booking_date)
        => ~SharesMinute(OccupiedNow(bookings[i])[1], OccupiedNow(bookings[i])[2],
                         OccupiedNow(bookings[j])[1], OccupiedNow(bookings[j])[2])

(***************************************************************************)
(* C28  Every stored booking stays consistent with the schedule of its     *)
(* provider: in every reachable state the occupied interval of each        *)
(* booking lies inside one active weekly window of the provider for the    *)
(* weekday of the booking date and shares no minute with a time-off block  *)
(* of the provider, also when add_timeoff runs after the booking was       *)
(* created.  add_timeoff stores the block without looking at the bookings. *)
(***************************************************************************)
InsideAWindow(b) ==
    \E i \in 1 .. Len(availabilities) :
        RuleContains(availabilities[i], b.provider_id, b.booking_date,
                     OccupiedNow(b)[1], OccupiedNow(b)[2])

C28_BookingsFitSchedule ==
    \A i \in 1 .. Len(bookings) :
        /\ InsideAWindow(bookings[i])
        /\ ~TimeOffBlocked(bookings[i].provider_id,
                           OccupiedNow(bookings[i])[1], OccupiedNow(bookings[i])[2])

(***************************************************************************)
(* C29  Every booking created by create_booking references a service that  *)
(* belongs to the provider of the booking: for every stored booking b the  *)
(* service with id b.service_id has provider_id equal to b.provider_id.    *)
(* create_booking looks the service and the provider up separately and     *)
(* never compares the two.                                                 *)
(***************************************************************************)
C29_ServiceOfProvider ==
    \A i \in 1 .. Len(bookings) :
        /\ bookings[i].service_id \in 1 .. Len(services)
        /\ services[bookings[i].service_id].provider_id = bookings[i].provider_id

(***************************************************************************)
(* C30  Provider isolation: the listing of provider P for service X on a   *)
(* date and the answer of create_booking for provider P depend only on the *)
(* duration of X and on P's own weekly rules, time-off rules and bookings. *)
(* Stated on steps: a step that leaves the duration of X and the rules,    *)
(* time off and bookings of P as they were leaves both results for P as    *)
(* they were.  A booking of P may name a service of another provider       *)
(* (C29), and a change of that service's duration moves P's occupancy.     *)
(***************************************************************************)
\* the weekly rules, time-off rules and bookings of provider p
OwnRows(p) ==
    <<SelectSeq(availabilities, LAMBDA r : r.provider_id = p),
      SelectSeq(timeoffs, LAMBDA r : r.provider_id = p),
      SelectSeq(bookings, LAMBDA r : r.provider_id = p)>>

\* what provider p answers for service x on Monday: the listing at step 30
\* and the answer to customer 3 asking for each start of the half-hour grid
AnswersFor(p, x) ==
    <<get_available_slots_for_date(p, x, 0, 30),
      [t \in {540, 570, 600, 630} |->
          create_booking_check(3, BookingCreate(p, x, 0, t, "addr", 100))]>>

C30_ProviderIsolation ==
    [][\A p \in {1, 2} : \A x \in 1 .. Len(services) :
          (/\ OwnRows(p)' = OwnRows(p)
           /\ x \in 1 .. Len(services')
           /\ services'[x].duration_minutes = services[x].duration_minutes)
          => AnswersFor(p, x)' = AnswersFor(p, x)]_vars

====
